---- MODULE Spec2Model ----
(***************************************************************************)
(* Product / review catalogue backend (cmd/api handlers, internal/data      *)
(* models, and the PostgreSQL schema with its average-rating trigger).      *)
(*                                                                          *)
(* The store is a PostgreSQL database used in autocommit mode: every model  *)
(* method issues one SQL statement.  A statement that writes a reviews row  *)
(* and fires the trigger's UPDATE of the parent products row is modelled in *)
(* two steps (execution, commit) under READ COMMITTED: the trigger's AVG    *)
(* sub-select reads the snapshot taken when the trigger's UPDATE starts,    *)
(* the UPDATE then waits for the products row lock, and the statement's     *)
(* writes become visible to other requests at commit.                       *)
(*                                                                          *)
(* Numbers with two decimals (average_rating) are integers in hundredths.   *)
(* A Go pointer field is a sequence: << >> is nil and <<v>> points to v.    *)
(***************************************************************************)
EXTENDS Integers, Sequences, FiniteSets, Bags, TLC

\* ---------------------------------------------------------------- bounds
MaxRequests == 5
MaxProducts == 2
MaxReviews == 3

\* One worker per inbound request; the workers that can run at once.
Workers == {1, 2}

Nil == << >>

Some(v) == <<v>>

Deref(p) == p[1]

\* ------------------------------------------------------------ input sets
LongAuthor == "abcdefghijklmnopqrstuvwxyz"

ProductIdInputs == 0 .. MaxProducts

ReviewIdInputs == 0 .. MaxReviews

CreateProductBodies ==
  { [name |-> "Widget", description |-> "d", category |-> "tools",
     image_url |-> "http://x/y.png", price |-> "9.99"],
    [name |-> "", description |-> "d", category |-> "tools",
     image_url |-> "http://x/y.png", price |-> "9.99"] }

UpdateProductBodies ==
  { [name |-> Some("Gadget"), description |-> Nil, category |-> Nil,
     image_url |-> Nil, price |-> Some("")],
    [name |-> Nil, description |-> Some(""), category |-> Nil,
     image_url |-> Nil, price |-> Some("1.50")] }

\* Bodies that pass ValidateReview.
ValidReviewFields ==
  { [author |-> Some("ann"), rating |-> Some(2), helpful_count |-> Nil,
     review_text |-> Some("ok")],
    [author |-> Some("ann"), rating |-> Some(4), helpful_count |-> Some(-1),
     review_text |-> Some("ok")] }

\* Bodies that fail it, and one without author.
InvalidReviewFields ==
  { [author |-> Some(LongAuthor), rating |-> Some(6), helpful_count |-> Nil,
     review_text |-> Some("")],
    [author |-> Nil, rating |-> Some(4), helpful_count |-> Nil,
     review_text |-> Some("ok")] }

ReviewBody(p, b) ==
  [product_id |-> p, author |-> b.author, rating |-> b.rating,
   helpful_count |-> b.helpful_count, review_text |-> b.review_text]

CreateReviewBodies ==
  { ReviewBody(Some(i), b) : i \in ProductIdInputs, b \in ValidReviewFields }
  \cup { ReviewBody(Some(1), b) : b \in InvalidReviewFields }
  \cup { ReviewBody(Nil, b) : b \in InvalidReviewFields }

UpdateReviewBodies ==
  { [author |-> Nil, rating |-> Some(5), review_text |-> Nil],
    [author |-> Some("bob"), rating |-> Nil, review_text |-> Some("meh")],
    [author |-> Some(LongAuthor), rating |-> Nil, review_text |-> Nil] }

\* ----------------------------------------------------------------- state
VARIABLES
  products,      \* committed rows of table products: product_id -> row
  reviews,       \* committed rows of table reviews: review_id -> row
  next_product_id,  \* bigserial sequence of products.product_id
  next_review_id,   \* bigserial sequence of reviews.review_id
  inflight,      \* the bag of requests being handled: for each its position
                 \* in the handler (at), the handler's local variables, and
                 \* its statement executed but not yet committed (txn)
  resp,          \* the response written by the last step, NoResp if it wrote none
  hist,          \* per stored review: helpful_count at creation, successful
                 \* helpful-count increments and successful updates since
  nreq           \* number of requests that reached a store write or a second store call

vars == <<products, reviews, next_product_id, next_review_id, inflight, resp,
          hist, nreq>>

\* ------------------------------------------------------- internal/data
\* validator.Validator: the set of field keys that have an error.
ValidateProduct(product) ==
  {f \in {"name"} : product.name = "" \/ Len(product.name) > 100}
  \cup {f \in {"description"} :
          product.description = "" \/ Len(product.description) > 500}
  \cup {f \in {"category"} : product.category = ""}
  \cup {f \in {"image_url"} :
          product.image_url = "" \/ Len(product.image_url) > 255}
  \cup {f \in {"price"} : Len(product.price) > 10}

ValidateReview(review) ==
  {f \in {"author"} : review.author = "" \/ Len(review.author) > 25}
  \cup {f \in {"review_text"} : review.review_text = ""}
  \cup {f \in {"product_id"} : ~(review.product_id > 0)}
  \cup {f \in {"rating"} : ~(review.rating >= 1 /\ review.rating <= 5)}

\* SQL NULL in the average_rating column.
NullAvg == -1

RECURSIVE SumRating(_, _)
SumRating(rows, ids) ==
  IF ids = {} THEN 0
  ELSE LET r == CHOOSE x \in ids : TRUE
       IN rows[r].rating + SumRating(rows, ids \ {r})

\* SELECT ROUND(CAST(AVG(rating) AS NUMERIC), 2) FROM reviews
\* WHERE reviews.product_id = pid, over the rows the statement can see;
\* in hundredths, rounded half away from zero, NULL over no row.
RoundAvgRating(rows, pid) ==
  LET ids == {r \in DOMAIN rows : rows[r].product_id = pid}
      n == Cardinality(ids)
  IN IF n = 0 THEN NullAvg
     ELSE (200 * SumRating(rows, ids) + n) \div (2 * n)

\* The body of automatic_average_rating(): the products row it updates and
\* the value it sets, or Nil when its WHERE matches no row.  NEW is Nil when
\* the trigger fires for a DELETE: NEW.product_id is then NULL and
\* "product_id = NULL" matches nothing.
automatic_average_rating(rows, new) ==
  IF new = Nil THEN Nil
  ELSE Some([pid |-> Deref(new).product_id,
             avg |-> RoundAvgRating(rows, Deref(new).product_id)])

RECURSIVE Pow2(_)
Pow2(k) == IF k = 0 THEN 1 ELSE 2 * Pow2(k - 1)

\* The binary exponent k for which h/100 * 2^k has a 24-bit mantissa.
RECURSIVE Float32Exp(_, _)
Float32Exp(h, k) ==
  IF h * Pow2(k) >= 100 * Pow2(23) THEN k ELSE Float32Exp(h, k + 1)

\* rows.Scan(&product.AverageRating): the float32 nearest to the numeric
\* h/100 (round half to even), as <<m, k>> standing for m / 2^k.
ScanFloat32(h) ==
  IF h = 0 THEN <<0, 0>>
  ELSE LET k == Float32Exp(h, 0)
           n == h * Pow2(k)
           q == n \div 100
           rem == n % 100
       IN IF 2 * rem > 100 \/ (2 * rem = 100 /\ q % 2 = 1)
          THEN <<q + 1, k>> ELSE <<q, k>>

\* A float32 bound to a DECIMAL(3,2) parameter: rounded to two decimals,
\* half away from zero; in hundredths.
NumericFromFloat32(f) ==
  LET m == f[1]
      k == f[2]
      q == (m * 100) \div Pow2(k)
      rem == (m * 100) % Pow2(k)
  IN IF k > 0 /\ rem >= Pow2(k - 1) THEN q + 1 ELSE q

\* NOW(): a logical clock that advances with every row inserted.
Now == next_product_id + next_review_id

\* ProductModel.ProductExists, ReviewModel.Exists
ProductExists(productID) == productID \in DOMAIN products

Exists(id) == id \in DOMAIN reviews

\* ProductModel.GetProduct / ReviewModel.GetReview: Nil is ErrRecordNotFound.
GetProduct(id) ==
  IF id < 1 THEN Nil
  ELSE IF id \notin DOMAIN products THEN Nil
  ELSE Some([product_id |-> id,
             name |-> products[id].name,
             description |-> products[id].description,
             category |-> products[id].category,
             image_url |-> products[id].image_url,
             price |-> products[id].price,
             average_rating |-> ScanFloat32(products[id].average_rating),
             created_at |-> products[id].created_at,
             version |-> products[id].version])

GetReview(id) ==
  IF id < 1 THEN Nil
  ELSE IF id \notin DOMAIN reviews THEN Nil
  ELSE Some([review_id |-> id] @@ reviews[id])

GetProductReview(rid, pid) ==
  IF pid < 1 \/ rid < 1 THEN Nil
  ELSE IF rid \in DOMAIN reviews /\ reviews[rid].product_id = pid
       THEN Some([review_id |-> rid] @@ reviews[rid])
       ELSE Nil

\* ------------------------------------------------------------ responses
NoResp ==
  [op |-> "none", status |-> "none", version |-> 0, errors |-> {},
   absent |-> FALSE]

\* op: the handler; status: the kind of response it wrote; version: the
\* version returned; errors: the keys of a failed validation; absent: the
\* addressed row (for createReview the parent product) had no committed row
\* when the outcome was decided.
Resp(op, status, version, errors, absent) ==
  [op |-> op, status |-> status, version |-> version, errors |-> errors,
   absent |-> absent]

\* A request being handled.
Request(op, pid, rid, body, ent) ==
  [op |-> op, at |-> op, pid |-> pid, rid |-> rid, body |-> body, ent |-> ent,
   txn |-> Nil]

Running == BagToSet(inflight)

\* ------------------------------------------------- row locks of the store
\* A reviews row written by a statement that has not committed.
RowLocked(rid) == \E r \in Running : r.txn # Nil /\ Deref(r.txn).rid = rid

\* The products row is locked by a trigger UPDATE that has not committed.
ProductLockHeld(pid) ==
  \E r \in Running : r.txn # Nil /\ Deref(r.txn).pid = pid /\ Deref(r.txn).holds

\* Some uncommitted statement wrote a review of the product (it holds a key
\* share lock on the products row, or locks one of its reviews rows).
InFlightOn(pid) == \E r \in Running : r.txn # Nil /\ Deref(r.txn).pid = pid

Restrict(f, S) == [x \in S |-> f[x]]

Init ==
  /\ products = << >>
  /\ reviews = << >>
  /\ next_product_id = 1
  /\ next_review_id = 1
  /\ inflight = EmptyBag
  /\ resp = NoResp
  /\ hist = << >>
  /\ nreq = 0

\* A request arrives and a worker is started for it.
Accept ==
  /\ resp = NoResp
  /\ BagCardinality(inflight) < Cardinality(Workers)
  /\ nreq < MaxRequests

\* The request is refused by its handler's first check, before any write:
\* it leaves the store and the request count as they are.
Refuse(r) ==
  /\ resp' = r
  /\ UNCHANGED <<inflight, nreq>>

\* The request goes on to its handler's next store call.
Proceed(req) ==
  /\ inflight' = inflight (+) SetToBag({req})
  /\ resp' = NoResp
  /\ nreq' = nreq + 1

\* The request req moves on as next.
Continue(req, next) ==
  /\ inflight' = (inflight (-) SetToBag({req})) (+) SetToBag({next})
  /\ resp' = NoResp

\* The handler of req writes its response and returns.
Reply(req, r) ==
  /\ inflight' = inflight (-) SetToBag({req})
  /\ resp' = r

\* ------------------------------------------------------ cmd/api/product.go
\* ProductModel.InsertProduct: the row stored for a validated product.
InsertProduct(product) ==
  [name |-> product.name, description |-> product.description,
   category |-> product.category, image_url |-> product.image_url,
   price |-> product.price, average_rating |-> 0, created_at |-> Now,
   version |-> 1]

createProductHandler(body) ==
  /\ Accept
  /\ next_product_id <= MaxProducts
  /\ LET errors == ValidateProduct(body)
     IN IF errors # {}
        THEN /\ Refuse(Resp("createProduct", "ValidationError", 0, errors, FALSE))
             /\ UNCHANGED <<products, next_product_id>>
        ELSE /\ products' = (next_product_id :> InsertProduct(body)) @@ products
             /\ next_product_id' = next_product_id + 1
             /\ nreq' = nreq + 1
             /\ resp' = Resp("createProduct", "Created", 1, {}, FALSE)
             /\ UNCHANGED inflight
  /\ UNCHANGED <<reviews, next_review_id, hist>>

\* updateProductHandler up to and including GetProduct.
updateProductRead(id, body) ==
  /\ Accept
  /\ LET product == GetProduct(id)
     IN IF product = Nil
        THEN Refuse(Resp("updateProduct", "NotFound", 0, {}, TRUE))
        ELSE Proceed(Request("updateProduct", id, 0, Some(body), product))
  /\ UNCHANGED <<products, reviews, next_product_id, next_review_id, hist>>

\* The merge of the supplied fields over the product read.
MergeProduct(product, body) ==
  [product EXCEPT
     !.name = IF body.name # Nil THEN Deref(body.name) ELSE @,
     !.description = IF body.description # Nil THEN Deref(body.description) ELSE @,
     !.category = IF body.category # Nil THEN Deref(body.category) ELSE @,
     !.image_url = IF body.image_url # Nil THEN Deref(body.image_url) ELSE @,
     !.price = IF body.price # Nil THEN Deref(body.price) ELSE @]

\* ProductModel.UpdateProduct: the row the UPDATE leaves, given the stored row.
UpdateProduct(row, product) ==
  [row EXCEPT
     !.name = product.name,
     !.description = product.description,
     !.category = product.category,
     !.image_url = product.image_url,
     !.price = product.price,
     !.average_rating = NumericFromFloat32(product.average_rating),
     !.version = @ + 1]

\* updateProductHandler from the merge on.  The UPDATE waits while another
\* statement holds a lock on the products row, and finds no row
\* (sql.ErrNoRows) when the product is gone.
updateProductWrite(req) ==
  /\ resp = NoResp
  /\ req.at = "updateProduct"
  /\ LET id == req.pid
         product == MergeProduct(Deref(req.ent), Deref(req.body))
         errors == ValidateProduct(product)
     IN IF errors # {}
        THEN /\ Reply(req, Resp("updateProduct", "ValidationError", 0, errors,
                                FALSE))
             /\ UNCHANGED products
        ELSE IF id \notin DOMAIN products
        THEN /\ Reply(req, Resp("updateProduct", "PersistenceError", 0, {}, TRUE))
             /\ UNCHANGED products
        ELSE /\ ~InFlightOn(id)
             /\ products' = [products EXCEPT ![id] = UpdateProduct(@, product)]
             /\ Reply(req, Resp("updateProduct", "OK", products[id].version + 1,
                                {}, FALSE))
  /\ UNCHANGED <<reviews, next_product_id, next_review_id, hist, nreq>>

\* Variant: a foreign key declared without ON DELETE CASCADE and not enforced.
DeleteProductOnly(id) ==
  [products |-> Restrict(products, DOMAIN products \ {id}),
   reviews |-> reviews]

\* ProductModel.DeleteProduct on an existing row: the products row goes and,
\* by ON DELETE CASCADE, so do the reviews rows that reference it.  The
\* trigger fires for each deleted review with NEW null and updates nothing.
DeleteProduct(id) ==
  LET kept == {r \in DOMAIN reviews : reviews[r].product_id # id}
  IN [products |-> Restrict(products, DOMAIN products \ {id}),
      reviews |-> Restrict(reviews, kept)]

deleteProductHandler(id) ==
  /\ Accept
  /\ IF id < 1 \/ id \notin DOMAIN products
     THEN /\ Refuse(Resp("deleteProduct", "NotFound", 0, {}, TRUE))
          /\ UNCHANGED <<products, reviews, hist>>
     ELSE /\ ~InFlightOn(id)
          /\ products' = DeleteProduct(id).products
          /\ reviews' = DeleteProduct(id).reviews
          /\ hist' = Restrict(hist, DOMAIN DeleteProduct(id).reviews)
          /\ nreq' = nreq + 1
          /\ resp' = Resp("deleteProduct", "OK", 0, {}, FALSE)
          /\ UNCHANGED inflight
  /\ UNCHANGED <<next_product_id, next_review_id>>

\* ------------------------------------------------------- cmd/api/review.go
\* A statement that wrote reviews row rid has executed: its write, and the
\* trigger's UPDATE of the parent products row computed over the rows the
\* statement sees (the committed rows and its own write), await commit.
\* The trigger's UPDATE holds the products row lock if it is free and
\* otherwise waits for it.
ExecReviewWrite(req, rid, row) ==
  LET visible == (rid :> row) @@ reviews
  IN Continue(req,
       [req EXCEPT
          !.at = "commit",
          !.txn = Some([rid |-> rid, pid |-> row.product_id, row |-> row,
                        trig |-> automatic_average_rating(visible, Some(row)),
                        holds |-> ~ProductLockHeld(row.product_id)])])

\* createReviewHandler up to and including ProductExists.
createReviewCheck(body) ==
  /\ Accept
  /\ next_review_id <= MaxReviews
  /\ IF body.product_id = Nil
     THEN Refuse(Resp("createReview", "BadRequest", 0, {}, FALSE))
     ELSE IF ~ProductExists(Deref(body.product_id))
     THEN Refuse(Resp("createReview", "RelatedResourceNotFound", 0, {}, TRUE))
     ELSE Proceed(Request("createReview", Deref(body.product_id), 0,
                          Some(body), Nil))
  /\ UNCHANGED <<products, reviews, next_product_id, next_review_id, hist>>

\* Variant: a reviews table declared without the REFERENCES clause.
ForeignKeyUndeclared(pid) == TRUE

\* reviews.product_id REFERENCES products(product_id): the check the INSERT
\* makes against the committed products rows.
ForeignKeyHolds(pid) == pid \in DOMAIN products

\* The data.Review the handler builds from the decoded body.
NewReview(body) ==
  [product_id |-> Deref(body.product_id),
   author |-> Deref(body.author),
   rating |-> Deref(body.rating),
   review_text |-> Deref(body.review_text),
   helpful_count |-> IF body.helpful_count = Nil THEN 0
                     ELSE Deref(body.helpful_count)]

\* ReviewModel.InsertReview: the row the INSERT writes.
InsertReview(review) ==
  [product_id |-> review.product_id, author |-> review.author,
   rating |-> review.rating, review_text |-> review.review_text,
   helpful_count |-> review.helpful_count, created_at |-> Now,
   version |-> 1]

\* createReviewHandler from the construction of the review to InsertReview.
\* The INSERT draws the next review_id and fails on the foreign key when the
\* products row is gone.
createReviewInsert(req) ==
  /\ resp = NoResp
  /\ req.at = "createReview"
  /\ next_review_id <= MaxReviews
  /\ LET body == Deref(req.body)
         pid == req.pid
     IN IF body.author = Nil \/ body.rating = Nil \/ body.review_text = Nil
        THEN /\ Reply(req, Resp("createReview", "Panic", 0, {}, FALSE))
             /\ UNCHANGED next_review_id
        ELSE IF ValidateReview(NewReview(body)) # {}
        THEN /\ Reply(req, Resp("createReview", "ValidationError", 0,
                                ValidateReview(NewReview(body)), FALSE))
             /\ UNCHANGED next_review_id
        ELSE IF ~ForeignKeyHolds(pid)
        THEN /\ Reply(req, Resp("createReview", "PersistenceError", 0, {}, TRUE))
             /\ next_review_id' = next_review_id + 1
        ELSE /\ ExecReviewWrite(req, next_review_id,
                                InsertReview(NewReview(body)))
             /\ next_review_id' = next_review_id + 1
  /\ UNCHANGED <<products, reviews, next_product_id, hist, nreq>>

\* displayReviewHandler: one read of the committed row.
displayReviewHandler(id) ==
  /\ Accept
  /\ LET review == GetReview(id)
     IN IF review = Nil
        THEN Refuse(Resp("displayReview", "NotFound", 0, {}, TRUE))
        ELSE Refuse(Resp("displayReview", "OK", Deref(review).version, {},
                         FALSE))
  /\ UNCHANGED <<products, reviews, next_product_id, next_review_id, hist>>

\* updateReviewHandler up to and including GetReview.
updateReviewRead(id, body) ==
  /\ Accept
  /\ LET review == GetReview(id)
     IN IF review = Nil
        THEN Refuse(Resp("updateReview", "NotFound", 0, {}, TRUE))
        ELSE Proceed(Request("updateReview", Deref(review).product_id, id,
                             Some(body), review))
  /\ UNCHANGED <<products, reviews, next_product_id, next_review_id, hist>>

\* The merge of the supplied fields over the review read.
MergeReview(review, body) ==
  [review EXCEPT
     !.author = IF body.author # Nil THEN Deref(body.author) ELSE @,
     !.rating = IF body.rating # Nil THEN Deref(body.rating) ELSE @,
     !.review_text = IF body.review_text # Nil THEN Deref(body.review_text) ELSE @]

\* Variant: an UPDATE that also writes helpful_count from the review the
\* handler read.
UpdateReviewAllColumns(row, review) ==
  [row EXCEPT
     !.author = review.author,
     !.rating = review.rating,
     !.review_text = review.review_text,
     !.helpful_count = review.helpful_count,
     !.version = @ + 1]

\* Variant: an UPDATE that saves the handler's copy of the review over the
\* stored row, with version = the version read + 1.
UpdateReviewFromRead(row, review) ==
  [product_id |-> review.product_id, author |-> review.author,
   rating |-> review.rating, review_text |-> review.review_text,
   helpful_count |-> review.helpful_count, created_at |-> review.created_at,
   version |-> review.version + 1]

\* ReviewModel.UpdateReview: the row the UPDATE leaves, given the stored row.
UpdateReview(row, review) ==
  [row EXCEPT
     !.author = review.author,
     !.rating = review.rating,
     !.review_text = review.review_text,
     !.version = @ + 1]

\* updateReviewHandler from the merge to UpdateReview.  The UPDATE waits
\* while another statement's write of the row is uncommitted, and finds no
\* row (sql.ErrNoRows) when the review is gone.
updateReviewWrite(req) ==
  /\ resp = NoResp
  /\ req.at = "updateReview"
  /\ LET id == req.rid
         review == MergeReview(Deref(req.ent), Deref(req.body))
         errors == ValidateReview(review)
     IN IF errors # {}
        THEN Reply(req, Resp("updateReview", "ValidationError", 0, errors, FALSE))
        ELSE IF id \notin DOMAIN reviews
        THEN Reply(req, Resp("updateReview", "PersistenceError", 0, {}, TRUE))
        ELSE /\ ~RowLocked(id)
             /\ ExecReviewWrite(req, id, UpdateReview(reviews[id], review))
  /\ UNCHANGED <<products, reviews, next_product_id, next_review_id, hist, nreq>>

\* ReviewModel.DeleteReview on an existing row: the rows the DELETE and the
\* trigger it fires (with NEW null) leave.
DeleteReview(id) ==
  LET left == Restrict(reviews, DOMAIN reviews \ {id})
      trig == automatic_average_rating(left, Nil)
  IN [reviews |-> left,
      products |->
        IF trig = Nil \/ Deref(trig).pid \notin DOMAIN products
        THEN products
        ELSE [products EXCEPT
                ![Deref(trig).pid].average_rating = Deref(trig).avg]]

\* deleteReviewHandler.  The DELETE is the only statement of its transaction
\* and waits while another statement's write of the row is uncommitted.
deleteReviewHandler(id) ==
  /\ Accept
  /\ IF id < 1 \/ id \notin DOMAIN reviews
     THEN /\ Refuse(Resp("deleteReview", "NotFound", 0, {}, TRUE))
          /\ UNCHANGED <<products, reviews, hist>>
     ELSE /\ ~RowLocked(id)
          /\ reviews' = DeleteReview(id).reviews
          /\ products' = DeleteReview(id).products
          /\ hist' = Restrict(hist, DOMAIN reviews \ {id})
          /\ nreq' = nreq + 1
          /\ resp' = Resp("deleteReview", "OK", 0, {}, FALSE)
          /\ UNCHANGED inflight
  /\ UNCHANGED <<next_product_id, next_review_id>>

\* HelpfulCountHandler up to and including Exists.
helpfulCountCheck(id) ==
  /\ Accept
  /\ IF ~Exists(id)
     THEN Refuse(Resp("helpfulCount", "NotFound", 0, {}, TRUE))
     ELSE Proceed(Request("helpfulCount", 0, id, Nil, Nil))
  /\ UNCHANGED <<products, reviews, next_product_id, next_review_id, hist>>

\* Variant: SET helpful_count = 1 in place of helpful_count + 1.
UpdateHelpfulCountToOne(row) == [row EXCEPT !.helpful_count = 1]

\* ReviewModel.UpdateHelpfulCount: the row the UPDATE leaves.
UpdateHelpfulCount(row) == [row EXCEPT !.helpful_count = @ + 1]

\* HelpfulCountHandler: UpdateHelpfulCount.  The UPDATE waits while another
\* statement's write of the row is uncommitted, and finds no row
\* (sql.ErrNoRows) when the review is gone.
helpfulCountUpdate(req) ==
  /\ resp = NoResp
  /\ req.at = "helpfulCount"
  /\ IF req.rid \notin DOMAIN reviews
     THEN Reply(req, Resp("helpfulCount", "PersistenceError", 0, {}, TRUE))
     ELSE /\ ~RowLocked(req.rid)
          /\ ExecReviewWrite(req, req.rid, UpdateHelpfulCount(reviews[req.rid]))
  /\ UNCHANGED <<products, reviews, next_product_id, next_review_id, hist, nreq>>

\* The statement a handler executed commits, once its trigger's UPDATE has
\* the products row lock: the reviews row and the average it computed become
\* visible, and the handler writes its response.
Commit(req) ==
  /\ resp = NoResp
  /\ req.at = "commit"
  /\ LET t == Deref(req.txn)
     IN /\ t.holds \/ ~ProductLockHeld(t.pid)
        /\ reviews' = (t.rid :> t.row) @@ reviews
        /\ products' =
             IF t.trig = Nil \/ Deref(t.trig).pid \notin DOMAIN products
             THEN products
             ELSE [products EXCEPT
                     ![Deref(t.trig).pid].average_rating = Deref(t.trig).avg]
        /\ hist' =
             IF req.op = "createReview"
             THEN (t.rid :> [created |-> t.row.helpful_count, incs |-> 0,
                             upds |-> 0]) @@ hist
             ELSE IF req.op = "updateReview"
             THEN [hist EXCEPT ![t.rid].upds = @ + 1]
             ELSE [hist EXCEPT ![t.rid].incs = @ + 1]
        /\ Reply(req, Resp(req.op,
                           IF req.op = "createReview" THEN "Created" ELSE "OK",
                           t.row.version, {}, FALSE))
  /\ UNCHANGED <<next_product_id, next_review_id, nreq>>

\* -------------------------------------------------------------- listings
\* Query-string parameters are pointers: Nil when the parameter is absent.
ListProductQueries ==
  { [name |-> Nil, category |-> Nil, page |-> Nil, page_size |-> Nil,
     sort |-> Nil],
    [name |-> Nil, category |-> Some("tools"), page |-> Some(2),
     page_size |-> Some(1), sort |-> Some("-name")],
    [name |-> Some("gadget"), category |-> Nil, page |-> Some(2),
     page_size |-> Some(2), sort |-> Some("name")],
    [name |-> Nil, category |-> Nil, page |-> Some(1), page_size |-> Some(10),
     sort |-> Some("price")],
    [name |-> Nil, category |-> Nil, page |-> Some(0), page_size |-> Some(101),
     sort |-> Some("-product_id")] }

ListReviewQueries ==
  { [author |-> Nil, page |-> Nil, page_size |-> Nil, sort |-> Nil],
    [author |-> Some("ann"), page |-> Some(2), page_size |-> Some(1),
     sort |-> Some("-author")],
    [author |-> Some("Bob"), page |-> Some(3), page_size |-> Some(1),
     sort |-> Some("author")],
    [author |-> Nil, page |-> Some(1), page_size |-> Some(10),
     sort |-> Some("rating")],
    [author |-> Nil, page |-> Some(0), page_size |-> Some(101),
     sort |-> Some("-review_id")] }

\* a.getSingleQueryParameter / a.getSingleIntegerParameter: the parameter,
\* or the default when it is absent.
getSingleQueryParameter(p, defaultValue) ==
  IF p = Nil THEN defaultValue ELSE Deref(p)

DefaultPage == 1

DefaultPageSize == 10

\* Variant: a safe list that also admits the price column.
ProductSortSafeListWithPrice ==
  {"product_id", "name", "-product_id", "-name", "price"}

ProductSortSafeList == {"product_id", "name", "-product_id", "-name"}

ReviewSortSafeList == {"review_id", "author", "-review_id", "-author"}

MaxPage == 10000000

MaxPageSize == 100

\* data.ValidateFilters: the keys with an error.
ValidateFilters(filters) ==
  {f \in {"page"} : ~(filters.page > 0 /\ filters.page <= MaxPage)}
  \cup {f \in {"page_size"} :
          ~(filters.page_size > 0 /\ filters.page_size <= MaxPageSize)}
  \cup {f \in {"sort"} : filters.sort \notin filters.sort_safe_list}

\* Filters.sortColumn, sortDirection, limit, offset, for a validated sort.
sortColumn(filters) ==
  CASE filters.sort \in {"product_id", "-product_id"} -> "product_id"
    [] filters.sort \in {"review_id", "-review_id"} -> "review_id"
    [] filters.sort \in {"name", "-name"} -> "name"
    [] filters.sort \in {"author", "-author"} -> "author"
    [] OTHER -> filters.sort

sortDirection(filters) ==
  IF filters.sort \in {"-product_id", "-review_id", "-name", "-author"}
  THEN "DESC" ELSE "ASC"

limit(filters) == filters.page_size

offset(filters) == (filters.page - 1) * filters.page_size

\* calculateMetaData
calculateMetaData(totalRecords, page, pageSize) ==
  IF totalRecords = 0
  THEN [current_page |-> 0, page_size |-> 0, last_page |-> 0,
        total_records |-> 0]
  ELSE [current_page |-> page, page_size |-> pageSize,
        last_page |-> (totalRecords + pageSize - 1) \div pageSize,
        total_records |-> totalRecords]

\* The lexeme the 'simple' text-search configuration makes of a one-word
\* text: the word in lower case.
Lexeme(text) ==
  CASE text = "Widget" -> "widget"
    [] text = "Gadget" -> "gadget"
    [] text = "Bob" -> "bob"
    [] OTHER -> text

\* to_tsvector('simple', column) @@ plainto_tsquery('simple', $1) OR $1 = ''
TextMatches(column, q) == q = "" \/ Lexeme(column) = Lexeme(q)

\* The place of a stored text in the column's ordering.
TextRank(text) ==
  CASE text \in {"Gadget", "ann"} -> 1
    [] text \in {"Widget", "bob"} -> 2

\* ORDER BY key direction, id ASC: the ids in that order.
RECURSIVE OrderBy(_, _, _)
OrderBy(ids, key, direction) ==
  IF ids = {} THEN << >>
  ELSE LET Before(x, y) ==
             \/ (direction = "ASC" /\ key[x] < key[y])
             \/ (direction = "DESC" /\ key[x] > key[y])
             \/ (key[x] = key[y] /\ x < y)
           first == CHOOSE x \in ids : \A y \in ids \ {x} : Before(x, y)
       IN <<first>> \o OrderBy(ids \ {first}, key, direction)

\* LIMIT $n OFFSET $m of the ordered rows, and the totalRecords the loop over
\* the returned rows leaves: COUNT(*) OVER() of the last row scanned, 0 when
\* no row is returned.
LimitOffset(ordered, filters) ==
  LET first == offset(filters) + 1
      last == IF offset(filters) + limit(filters) < Len(ordered)
              THEN offset(filters) + limit(filters) ELSE Len(ordered)
      rows == IF first > last THEN << >> ELSE SubSeq(ordered, first, last)
      totalRecords == IF rows = << >> THEN 0 ELSE Len(ordered)
  IN [entities |-> rows,
      metadata |-> calculateMetaData(totalRecords, filters.page,
                                     filters.page_size)]

\* The products rows the WHERE clause of GetAllProducts keeps.
MatchingProducts(name, category) ==
  {p \in DOMAIN products :
     /\ TextMatches(products[p].name, name)
     /\ TextMatches(products[p].category, category)}

\* ProductModel.GetAllProducts
GetAllProducts(name, category, filters) ==
  LET ids == MatchingProducts(name, category)
      key == [p \in ids |->
                IF sortColumn(filters) = "name"
                THEN TextRank(products[p].name) ELSE p]
  IN LimitOffset(OrderBy(ids, key, sortDirection(filters)), filters)

\* The reviews rows the WHERE clause of GetAllReviews keeps.
MatchingReviews(author) ==
  {r \in DOMAIN reviews : TextMatches(reviews[r].author, author)}

\* ReviewModel.GetAllReviews
GetAllReviews(author, filters) ==
  LET ids == MatchingReviews(author)
      key == [r \in ids |->
                IF sortColumn(filters) = "author"
                THEN TextRank(reviews[r].author) ELSE r]
  IN LimitOffset(OrderBy(ids, key, sortDirection(filters)), filters)

\* The response of a listing handler: the query it was given and, when the
\* store's query ran, its result (Nil when it did not run).
ListResp(op, status, errors, query, result) ==
  [op |-> op, status |-> status, version |-> 0, errors |-> errors,
   absent |-> FALSE, query |-> query, result |-> result]

listProductHandler(q) ==
  /\ Accept
  /\ LET name == getSingleQueryParameter(q.name, "")
         category == getSingleQueryParameter(q.category, "")
         filters ==
           [page |-> getSingleQueryParameter(q.page, DefaultPage),
            page_size |-> getSingleQueryParameter(q.page_size, DefaultPageSize),
            sort |-> getSingleQueryParameter(q.sort, "product_id"),
            sort_safe_list |-> ProductSortSafeList]
         errors == ValidateFilters(filters)
     IN IF errors # {}
        THEN Refuse(ListResp("listProducts", "ValidationError", errors, q, Nil))
        ELSE Refuse(ListResp("listProducts", "OK", {}, q,
                             Some(GetAllProducts(name, category, filters))))
  /\ UNCHANGED <<products, reviews, next_product_id, next_review_id, hist>>

listReviewHandler(q) ==
  /\ Accept
  /\ LET author == getSingleQueryParameter(q.author, "")
         filters ==
           [page |-> getSingleQueryParameter(q.page, DefaultPage),
            page_size |-> getSingleQueryParameter(q.page_size, DefaultPageSize),
            sort |-> getSingleQueryParameter(q.sort, "review_id"),
            sort_safe_list |-> ReviewSortSafeList]
         errors == ValidateFilters(filters)
     IN IF errors # {}
        THEN Refuse(ListResp("listReviews", "ValidationError", errors, q, Nil))
        ELSE Refuse(ListResp("listReviews", "OK", {}, q,
                             Some(GetAllReviews(author, filters))))
  /\ UNCHANGED <<products, reviews, next_product_id, next_review_id, hist>>

\* The response written is sent to the client.  Nothing reads resp, so no
\* behaviour of the store is lost by letting it be sent before the next step.
writeJSON ==
  /\ resp # NoResp
  /\ resp' = NoResp
  /\ UNCHANGED <<products, reviews, next_product_id, next_review_id, inflight,
                 hist, nreq>>

Next ==
  \/ writeJSON
  \/ \E body \in CreateProductBodies : createProductHandler(body)
  \/ \E id \in ProductIdInputs, body \in UpdateProductBodies :
       updateProductRead(id, body)
  \/ \E req \in Running : updateProductWrite(req)
  \/ \E id \in ProductIdInputs : deleteProductHandler(id)
  \/ \E body \in CreateReviewBodies : createReviewCheck(body)
  \/ \E req \in Running : createReviewInsert(req)
  \/ \E id \in ReviewIdInputs : displayReviewHandler(id)
  \/ \E id \in ReviewIdInputs, body \in UpdateReviewBodies :
       updateReviewRead(id, body)
  \/ \E req \in Running : updateReviewWrite(req)
  \/ \E id \in ReviewIdInputs : deleteReviewHandler(id)
  \/ \E id \in ReviewIdInputs : helpfulCountCheck(id)
  \/ \E req \in Running : helpfulCountUpdate(req)
  \/ \E req \in Running : Commit(req)
  \/ \E q \in ListProductQueries : listProductHandler(q)
  \/ \E q \in ListReviewQueries : listReviewHandler(q)

Spec == Init /\ [][Next]_vars

\* ------------------------------------------------------------ properties
ReviewsOf(pid) == {r \in DOMAIN reviews : reviews[r].product_id = pid}

\* The mean of the ratings of the stored reviews of pid, rounded to two
\* decimals (in hundredths), 0.00 when it has none.
RequiredAverage(pid) ==
  LET n == Cardinality(ReviewsOf(pid))
  IN IF n = 0 THEN 0
     ELSE (200 * SumRating(reviews, ReviewsOf(pid)) + n) \div (2 * n)

AverageCurrent(pid) == products[pid].average_rating = RequiredAverage(pid)

\* The step is the commit of the statement of request req.
Commits(req) ==
  /\ req.at = "commit"
  /\ inflight' = inflight (-) SetToBag({req})

\* C1: in every committed state each product's average_rating is the mean of
\* the ratings of its reviews rounded to two decimals, and 0.00 when it has
\* no review.
C1_AverageIsMean == \A pid \in DOMAIN products : AverageCurrent(pid)

\* C2: when a review insert, or a review update that changes the rating,
\* commits, the parent product's average_rating is the rounded mean of the
\* ratings of all the reviews then stored for it.
C2_AverageAfterInsertOrUpdate ==
  [][\A pid \in DOMAIN products' :
       (\E rid \in DOMAIN reviews' :
          /\ reviews'[rid].product_id = pid
          /\ \/ rid \notin DOMAIN reviews
             \/ reviews'[rid].rating # reviews[rid].rating)
         => AverageCurrent(pid)']_vars

\* C3: when a review delete commits, the parent product's average_rating is
\* the rounded mean over its remaining reviews, 0.00 when none remains.
C3_AverageAfterDelete ==
  [][\A pid \in DOMAIN products' :
       (\E rid \in DOMAIN reviews :
          /\ rid \notin DOMAIN reviews'
          /\ reviews[rid].product_id = pid)
         => AverageCurrent(pid)']_vars

\* C4: when a review insert or update that ran concurrently with another
\* review write of the same product (it found the products row locked by
\* that write's trigger) commits, the product's average_rating reflects
\* every committed review.
C4_AverageAfterConcurrentWrites ==
  [][\A pid \in DOMAIN products' :
       (\E req \in Running :
          /\ Commits(req)
          /\ req.op \in {"createReview", "updateReview"}
          /\ Deref(req.txn).pid = pid
          /\ ~Deref(req.txn).holds)
         => AverageCurrent(pid)']_vars

\* C5: every stored review's product_id is the id of a stored product, under
\* every interleaving of review creations with product deletions.
C5_ReviewReferencesProduct ==
  \A rid \in DOMAIN reviews : reviews[rid].product_id \in DOMAIN products

\* A review creation passed ProductExists, the product was deleted, and the
\* INSERT was rejected.
C5_Witness ==
  /\ resp.op = "createReview"
  /\ resp.status = "PersistenceError"
  /\ resp.absent
  /\ C5_ReviewReferencesProduct

\* C6: a review creation whose product has no stored row when its outcome is
\* decided ends in RelatedResourceNotFound, also when the product was deleted
\* between ProductExists and the INSERT.
C6_MissingProductIsRelatedResourceNotFound ==
  (resp.op = "createReview" /\ resp.absent)
    => resp.status = "RelatedResourceNotFound"

\* C7: a successful product delete removes, in one step, one product and
\* every review that referenced it (ProductExists is false, GetReview, Exists
\* and GetProductReview find none of its reviews) and leaves every other
\* product and the reviews of other products as they were.
C7_DeleteProductCascades ==
  [][(resp'.op = "deleteProduct" /\ resp'.status = "OK" /\ resp = NoResp)
       => \E p \in DOMAIN products :
            /\ ~ProductExists(p)'
            /\ \A q \in DOMAIN products \ {p} :
                 ProductExists(q)' /\ products'[q] = products[q]
            /\ \A rid \in DOMAIN reviews :
                 IF reviews[rid].product_id = p
                 THEN /\ GetReview(rid)' = Nil
                      /\ ~Exists(rid)'
                      /\ GetProductReview(rid, p)' = Nil
                 ELSE /\ Exists(rid)'
                      /\ reviews'[rid] = reviews[rid]]_vars

\* Two products were created, each got a review, and one product was
\* deleted: its review went with it and the other product's review stayed.
C7_Witness ==
  /\ resp.op = "deleteProduct"
  /\ resp.status = "OK"
  /\ inflight = EmptyBag
  /\ next_product_id = 3
  /\ next_review_id = 3
  /\ Cardinality(DOMAIN products) = 1
  /\ Cardinality(DOMAIN reviews) = 1
  /\ nreq = 5

\* C8: a stored review's helpful_count is its helpful_count at creation plus
\* the number of successful increments since, under every interleaving.
C8_HelpfulCountCountsIncrements ==
  \A rid \in DOMAIN reviews :
    reviews[rid].helpful_count = hist[rid].created + hist[rid].incs

\* A review created with helpful_count 0 has had two successful increments.
C8_Witness ==
  \E rid \in DOMAIN reviews :
    /\ hist[rid].created = 0
    /\ hist[rid].incs = 2
    /\ reviews[rid].helpful_count = 2

\* C9: every stored review has helpful_count >= 0, whatever the creation
\* payload supplied.
C9_HelpfulCountNonNegative ==
  \A rid \in DOMAIN reviews : reviews[rid].helpful_count >= 0

SuppliedReviewFields == {"author", "rating", "review_text"}

SuppliedProductFields ==
  {"name", "description", "category", "image_url", "price"}

\* C10: the write of a successful review update raises version by exactly 1
\* (and returns it), leaves product_id, helpful_count and created_at as
\* stored, and leaves each of author, rating, review_text the request did
\* not supply at the value the request read; the write of a successful
\* product update raises version by exactly 1, leaves created_at as stored,
\* and leaves each of name, description, category, image_url, price the
\* request did not supply, and average_rating, at the value the request read.
C10_PartialUpdateFrame ==
  [][\A req \in Running :
       /\ (Commits(req) /\ req.op = "updateReview")
            => LET rid == req.rid
                   read == Deref(req.ent)
               IN /\ reviews'[rid].version = reviews[rid].version + 1
                  /\ resp'.version = reviews'[rid].version
                  /\ reviews'[rid].product_id = reviews[rid].product_id
                  /\ reviews'[rid].helpful_count = reviews[rid].helpful_count
                  /\ reviews'[rid].created_at = reviews[rid].created_at
                  /\ \A f \in SuppliedReviewFields :
                       Deref(req.body)[f] = Nil => reviews'[rid][f] = read[f]
       /\ (/\ req.at = "updateProduct"
           /\ inflight' = inflight (-) SetToBag({req})
           /\ resp'.status = "OK")
            => LET pid == req.pid
                   read == Deref(req.ent)
               IN /\ products'[pid].version = products[pid].version + 1
                  /\ resp'.version = products'[pid].version
                  /\ products'[pid].created_at = products[pid].created_at
                  /\ ScanFloat32(products'[pid].average_rating)
                       = read.average_rating
                  /\ \A f \in SuppliedProductFields :
                       Deref(req.body)[f] = Nil => products'[pid][f] = read[f]
    ]_vars

\* A review updated once with only a rating, and incremented once, keeps its
\* author; a product updated once with only a name is at version 2.
C10_Witness ==
  \E rid \in DOMAIN reviews, pid \in DOMAIN products :
    /\ hist[rid].upds = 1
    /\ hist[rid].incs = 1
    /\ reviews[rid].rating = 5
    /\ reviews[rid].author = "ann"
    /\ reviews[rid].version = 2
    /\ products[pid].name = "Gadget"
    /\ products[pid].version = 2

\* The step is the successful UPDATE of the product update request req.
ProductUpdated(req) ==
  /\ req.at = "updateProduct"
  /\ inflight' = inflight (-) SetToBag({req})
  /\ resp'.op = "updateProduct"
  /\ resp'.status = "OK"

\* C11: the average_rating stored immediately after a product update
\* statement equals the average_rating stored immediately before it, under
\* every interleaving of the handler with review writes of that product.
C11_ProductUpdateKeepsAverage ==
  [][\A req \in Running :
       ProductUpdated(req)
         => products'[req.pid].average_rating
              = products[req.pid].average_rating]_vars

\* C12: a product is stored with version 1, and every step that changes a
\* field of a stored product (average_rating included) raises its version by
\* exactly 1, so that equal versions mean equal fields.
C12_ProductChangeBumpsVersion ==
  [][\A pid \in DOMAIN products' :
       IF pid \notin DOMAIN products
       THEN products'[pid].version = 1
       ELSE products'[pid] # products[pid]
              => products'[pid].version = products[pid].version + 1]_vars

\* The number of stored rows that match the text filters of the listing
\* request answered by resp.
MatchingRows ==
  IF resp.op = "listProducts"
  THEN Cardinality(MatchingProducts(
         getSingleQueryParameter(resp.query.name, ""),
         getSingleQueryParameter(resp.query.category, "")))
  ELSE Cardinality(MatchingReviews(
         getSingleQueryParameter(resp.query.author, "")))

\* C13: a listing that passed validation returns metadata whose
\* total_records is the number of rows matching the text filters, for every
\* page, also one beyond the last page; the metadata is all-zero only when no
\* row matches.
C13_TotalRecordsCountsMatches ==
  (resp.op \in {"listProducts", "listReviews"} /\ resp.status = "OK")
    => /\ Deref(resp.result).metadata.total_records = MatchingRows
       /\ Deref(resp.result).metadata.last_page = 0 => MatchingRows = 0

\* The page, page_size and sort of the listing request answered by resp,
\* with the defaults for absent parameters.
ListedPage == getSingleQueryParameter(resp.query.page, 1)

ListedPageSize == getSingleQueryParameter(resp.query.page_size, 10)

ListedSort ==
  getSingleQueryParameter(resp.query.sort,
    IF resp.op = "listProducts" THEN "product_id" ELSE "review_id")

SortAllowed ==
  IF resp.op = "listProducts"
  THEN ListedSort \in {"product_id", "name", "-product_id", "-name"}
  ELSE ListedSort \in {"review_id", "author", "-review_id", "-author"}

\* C14: a listing request whose sort is outside the entity's allow-list, or
\* whose page or page_size is not a positive integer within its maximum,
\* ends in a validation failure (naming sort when the sort is at fault) and
\* the store's list query is not executed.
C14_InvalidFiltersNeverQuery ==
  (/\ resp.op \in {"listProducts", "listReviews"}
   /\ \/ ~SortAllowed
      \/ ~(ListedPage >= 1 /\ ListedPage <= MaxPage)
      \/ ~(ListedPageSize >= 1 /\ ListedPageSize <= MaxPageSize))
    => /\ resp.status = "ValidationError"
       /\ resp.result = Nil
       /\ ~SortAllowed => "sort" \in resp.errors

\* A product listing sorted by a column outside the allow-list was refused
\* while products were stored.
C14_Witness ==
  /\ resp.op = "listProducts"
  /\ resp.status = "ValidationError"
  /\ resp.errors = {"sort"}
  /\ resp.result = Nil
  /\ DOMAIN products # {}

\* The handler of req wrote the response of createReviewHandler past its
\* product check.
ReviewCreationAnswered(req) ==
  /\ req.at = "createReview"
  /\ inflight' = inflight (-) SetToBag({req})
  /\ resp' # NoResp

\* The required fields of a review creation body that are absent or break
\* their constraint.
ViolatedReviewFields(body) ==
  {f \in {"author"} :
     \/ body.author = Nil
     \/ Deref(body.author) = ""
     \/ Len(Deref(body.author)) > 25}
  \cup {f \in {"rating"} :
          \/ body.rating = Nil
          \/ Deref(body.rating) < 1
          \/ Deref(body.rating) > 5}
  \cup {f \in {"review_text"} :
          body.review_text = Nil \/ Deref(body.review_text) = ""}

\* C15: a review creation for an existing product whose author, rating or
\* review_text is absent or breaks its constraint is answered with a
\* ValidationError that lists every such field, and creates no row.
C15_InvalidReviewIsValidationError ==
  [][\A req \in Running :
       (ReviewCreationAnswered(req)
        /\ ViolatedReviewFields(Deref(req.body)) # {})
         => /\ resp'.status = "ValidationError"
            /\ resp'.errors = ViolatedReviewFields(Deref(req.body))
            /\ reviews' = reviews]_vars

\* C16: every stored product has a non-empty name, description, category,
\* image_url and price, with name at most 100, description at most 500,
\* image_url at most 255 and price at most 10 characters.
C16_StoredProductIsValid ==
  \A pid \in DOMAIN products :
    LET p == products[pid]
    IN /\ p.name # "" /\ Len(p.name) <= 100
       /\ p.description # "" /\ Len(p.description) <= 500
       /\ p.category # ""
       /\ p.image_url # "" /\ Len(p.image_url) <= 255
       /\ p.price # "" /\ Len(p.price) <= 10

\* C17: a get, update, delete or helpful-count increment addressed to a
\* review that has no row when its store statement runs is answered with
\* NotFound, and its step changes no stored row.
C17_AbsentReviewIsNotFound ==
  [][(/\ resp'.op \in {"displayReview", "updateReview", "deleteReview",
                       "helpfulCount"}
      /\ resp'.absent)
       => /\ resp'.status = "NotFound"
          /\ reviews' = reviews
          /\ products' = products]_vars

\* C18: no helpful-count increment is lost to a concurrent review update and
\* no update is lost to an increment: every stored review has helpful_count =
\* its initial helpful_count + the successful increments, and version = its
\* initial version 1 + the successful updates.
C18_IncrementsAndUpdatesBothCount ==
  \A rid \in DOMAIN reviews :
    /\ reviews[rid].helpful_count = hist[rid].created + hist[rid].incs
    /\ reviews[rid].version = 1 + hist[rid].upds

\* An update whose handler read the review before an increment committed
\* has executed its UPDATE after it, and its row keeps the increment.
C18_Witness ==
  \E req \in Running :
    /\ req.op = "updateReview"
    /\ req.at = "commit"
    /\ req.rid \in DOMAIN reviews
    /\ hist[req.rid].incs >= 1
    /\ Deref(req.ent).helpful_count < reviews[req.rid].helpful_count
    /\ Deref(req.txn).row.helpful_count = reviews[req.rid].helpful_count

====
